---- MODULE Spec2Model ----
(***************************************************************************)
(* Score calculation and N/A propagation of the power pipeline dashboard:  *)
(* the SCORE_MAPPINGS normalizers (src/constants/index.jsx), the canonical *)
(* score calculations (backend/utils/scoreCalculations.js) and the expert  *)
(* analysis save (current values + history).                               *)
(*                                                                         *)
(* JavaScript values are records [t, n, s]: t is the type tag, n the       *)
(* number (fixed point, in 1/Unit) and s the string (a sequence of one-    *)
(* character strings).  Arithmetic is exact on the fixed-point grid; the   *)
(* rounding error of IEEE doubles is not modelled.                         *)
(***************************************************************************)
EXTENDS Integers, Sequences, FiniteSets

(* Fixed-point grid: 1/80 makes the weights (n/20) and the repower        *)
(* multiplier (3/4) exact on hundredths, 1/100 is the input resolution.   *)
Unit == 80 * 100

(* ---------------------------------------------------------------------- *)
(* JavaScript values                                                      *)
(* ---------------------------------------------------------------------- *)
Undefined == [t |-> "undefined", n |-> 0, s |-> <<>>]
Null == [t |-> "null", n |-> 0, s |-> <<>>]
NaN == [t |-> "NaN", n |-> 0, s |-> <<>>]
Num(k) == [t |-> "number", n |-> k, s |-> <<>>]
Str(cs) == [t |-> "string", n |-> 0, s |-> cs]
Int2Num(i) == Num(i * Unit)

IsNumber(v) == v.t = "number"
IsString(v) == v.t = "string"
IsNaN(v) == v.t = "NaN"

(* JavaScript truthiness: undefined, null, NaN, 0 and "" are falsy. *)
Truthy(v) ==
  CASE v.t = "undefined" -> FALSE
    [] v.t = "null" -> FALSE
    [] v.t = "NaN" -> FALSE
    [] v.t = "number" -> v.n # 0
    [] OTHER -> v.s # <<>>

(* a || b *)
Or(a, b) == IF Truthy(a) THEN a ELSE b

(* ---------------------------------------------------------------------- *)
(* Strings                                                                *)
(* ---------------------------------------------------------------------- *)
UpperChars == <<"A","B","C","D","E","F","G","H","I","J","K","L","M",
                "N","O","P","Q","R","S","T","U","V","W","X","Y","Z">>
LowerChars == <<"a","b","c","d","e","f","g","h","i","j","k","l","m",
                "n","o","p","q","r","s","t","u","v","w","x","y","z">>
DigitChars == <<"0","1","2","3","4","5","6","7","8","9">>

IsSpace(c) == c = " "
IsDigit(c) == \E i \in 1..10 : DigitChars[i] = c
DigitVal(c) == (CHOOSE i \in 1..10 : DigitChars[i] = c) - 1

LowerChar(c) ==
  IF \E i \in 1..26 : UpperChars[i] = c
  THEN LowerChars[CHOOSE i \in 1..26 : UpperChars[i] = c]
  ELSE c

(* String.prototype.toLowerCase *)
ToLowerCase(cs) == [i \in 1..Len(cs) |-> LowerChar(cs[i])]

RECURSIVE TrimStart(_)
TrimStart(cs) ==
  IF cs # <<>> /\ IsSpace(Head(cs)) THEN TrimStart(Tail(cs)) ELSE cs

RECURSIVE TrimEnd(_)
TrimEnd(cs) ==
  IF cs # <<>> /\ IsSpace(cs[Len(cs)])
  THEN TrimEnd(SubSeq(cs, 1, Len(cs) - 1))
  ELSE cs

(* String.prototype.trim *)
Trim(cs) == TrimEnd(TrimStart(cs))

(* String.prototype.includes *)
Includes(cs, sub) ==
  \E i \in 1..(Len(cs) - Len(sub) + 1) : SubSeq(cs, i, i + Len(sub) - 1) = sub

(* The longest run of digits at the front of cs. *)
RECURSIVE TakeDigits(_)
TakeDigits(cs) ==
  IF cs # <<>> /\ IsDigit(Head(cs))
  THEN <<Head(cs)>> \o TakeDigits(Tail(cs))
  ELSE <<>>

(* The value of a run of digits, as an integer. *)
RECURSIVE DigitsVal(_)
DigitsVal(ds) ==
  IF ds = <<>> THEN 0
  ELSE DigitsVal(SubSeq(ds, 1, Len(ds) - 1)) * 10 + DigitVal(ds[Len(ds)])

(* The decimal digits of a natural number. *)
RECURSIVE NatDigits(_)
NatDigits(k) ==
  IF k < 10 THEN <<DigitChars[k + 1]>>
  ELSE NatDigits(k \div 10) \o <<DigitChars[(k % 10) + 1]>>

(* Numbers print with up to six fraction digits: 10^6 / Unit is whole. *)
FracDigits == 3 + 3
FracPerUnit == 1000000 \div Unit

RECURSIVE PadLeft(_, _)
PadLeft(ds, len) == IF Len(ds) >= len THEN ds ELSE PadLeft(<<"0">> \o ds, len)

RECURSIVE PadRight(_, _)
PadRight(ds, len) == IF Len(ds) >= len THEN ds ELSE PadRight(ds \o <<"0">>, len)

RECURSIVE StripZeros(_)
StripZeros(ds) ==
  IF ds # <<>> /\ ds[Len(ds)] = "0"
  THEN StripZeros(SubSeq(ds, 1, Len(ds) - 1))
  ELSE ds

Abs(k) == IF k < 0 THEN -k ELSE k

(* An integer part and fraction digits as a decimal literal. *)
Decimal(neg, ip, fp) ==
  (IF neg THEN <<"-">> ELSE <<>>) \o ip \o (IF fp = <<>> THEN <<>> ELSE <<".">> \o fp)

(* Number.prototype.toString for a finite number in plain decimal form. *)
NumToString(k) ==
  Decimal(k < 0, NatDigits(Abs(k) \div Unit),
          StripZeros(PadLeft(NatDigits((Abs(k) % Unit) * FracPerUnit), FracDigits)))

(* String(v) *)
StringOf(v) ==
  CASE v.t = "undefined" -> <<"u","n","d","e","f","i","n","e","d">>
    [] v.t = "null" -> <<"n","u","l","l">>
    [] v.t = "NaN" -> <<"N","a","N">>
    [] v.t = "number" -> NumToString(v.n)
    [] OTHER -> v.s

(* The sign of a numeric literal and the literal without it. *)
SignOf(cs) == IF cs # <<>> /\ Head(cs) = "-" THEN -1 ELSE 1
Unsigned(cs) == IF cs # <<>> /\ (Head(cs) = "-" \/ Head(cs) = "+") THEN Tail(cs) ELSE cs

(* The fraction digits that follow the integer digits ip at the front of cs. *)
FractionOf(cs, ip) ==
  IF Len(cs) > Len(ip) /\ cs[Len(ip) + 1] = "."
  THEN TakeDigits(SubSeq(cs, Len(ip) + 2, Len(cs)))
  ELSE <<>>

(* The number sign * ip.fp; NaN when there is no digit at all. *)
NumberOf(sign, ip, fp) ==
  IF ip = <<>> /\ fp = <<>> THEN NaN
  ELSE Num(sign * (DigitsVal(ip) * Unit
                   + DigitsVal(SubSeq(PadRight(fp, FracDigits), 1, FracDigits))
                       \div FracPerUnit))

UnsignedFloat(sign, cs, ip) == NumberOf(sign, ip, FractionOf(cs, ip))
SignedFloat(cs) == UnsignedFloat(SignOf(cs), Unsigned(cs), TakeDigits(Unsigned(cs)))

(* parseFloat on a string: leading white space is skipped, the longest     *)
(* decimal literal at the front is read, NaN if there is none.  Fraction   *)
(* digits past the grid are dropped; exponents are not read.               *)
ParseFloatStr(cs) == SignedFloat(TrimStart(cs))

SignedInt(cs) == NumberOf(SignOf(cs), TakeDigits(Unsigned(cs)), <<>>)

(* parseInt on a string, radix 10. *)
ParseIntStr(cs) == SignedInt(TrimStart(cs))

(* parseFloat(v), parseInt(v): the argument is converted to a string first. *)
parseFloat(v) == ParseFloatStr(StringOf(v))
parseInt(v) == ParseIntStr(StringOf(v))

(* Math.round: to the nearest integer, halves up. *)
MathRound(v) == IF IsNaN(v) THEN NaN ELSE Num(((2 * v.n + Unit) \div (2 * Unit)) * Unit)
MathMax(a, b) == IF IsNaN(a) \/ IsNaN(b) THEN NaN ELSE IF a.n >= b.n THEN a ELSE b
MathMin(a, b) == IF IsNaN(a) \/ IsNaN(b) THEN NaN ELSE IF a.n <= b.n THEN a ELSE b

(* v * (w / 100) and a + b on numbers; NaN is contagious. *)
Times(v, w) == IF IsNaN(v) THEN NaN ELSE Num((v.n * w) \div 100)
Plus(a, b) == IF IsNaN(a) \/ IsNaN(b) THEN NaN ELSE Num(a.n + b.n)

(* x === null || x === undefined || x === '' *)
IsBlank(v) == v.t = "null" \/ v.t = "undefined" \/ (IsString(v) /\ v.s = <<>>)

(* ---------------------------------------------------------------------- *)
(* SCORE_MAPPINGS (src/constants/index.jsx)                               *)
(* ---------------------------------------------------------------------- *)
HashNA == <<"#","N","/","A">>
PlainNA == <<"N","/","A">>
HashValue == <<"#","V","A","L","U","E","!">>

(* The sentinel test of naValues.js isNA, which does not know '#VALUE!'. *)
IsSentinelNoValue(cs) == cs = <<>> \/ cs = HashNA \/ cs = PlainNA

(* str === '' || str === '#N/A' || str === 'N/A' || str === '#VALUE!' *)
IsSentinel(cs) == cs = <<>> \/ cs = HashNA \/ cs = PlainNA \/ cs = HashValue

(* The upper bound of the middle bucket compared with < in the place of <=. *)
codBefore2005(year) ==
  IF IsBlank(year) THEN Null
  ELSE IF IsSentinel(Trim(StringOf(year))) THEN Null
  ELSE LET codYear == parseInt(year)
       IN IF IsNaN(codYear) THEN Null
          ELSE IF codYear.n < 2000 * Unit THEN Int2Num(3)
          ELSE IF codYear.n < 2005 * Unit THEN Int2Num(2)
          ELSE Int2Num(1)

cod(year) ==
  IF IsBlank(year) THEN Null
  ELSE IF IsSentinel(Trim(StringOf(year))) THEN Null
  ELSE LET codYear == parseInt(year)
       IN IF IsNaN(codYear) THEN Null
          ELSE IF codYear.n < 2000 * Unit THEN Int2Num(3)
          ELSE IF codYear.n <= 2005 * Unit THEN Int2Num(2)
          ELSE Int2Num(1)

capacityFactor(cf) ==
  IF IsBlank(cf) THEN Null
  ELSE IF IsSentinel(Trim(StringOf(cf))) THEN Null
  ELSE LET cfNum == parseFloat(cf)
       IN IF IsNaN(cfNum) THEN Null
          ELSE IF 10 * cfNum.n < Unit THEN Int2Num(3)
          ELSE IF 100 * cfNum.n <= 25 * Unit THEN Int2Num(2)
          ELSE Int2Num(1)

premiumMarkets == {<<"P","J","M">>, <<"N","Y","I","S","O">>, <<"I","S","O","-","N","E">>}
goodMarkets == {<<"M","I","S","O"," ","N","o","r","t","h">>, <<"S","E","R","C">>}
neutralMarkets == {<<"S","P","P">>, <<"M","I","S","O"," ","S","o","u","t","h">>}
poorMarkets == {<<"E","R","C","O","T">>, <<"W","E","C","C">>, <<"C","A","I","S","O">>}

market(iso) ==
  IF IsBlank(iso) THEN Null
  ELSE LET isoStr == Trim(StringOf(iso))
       IN IF IsSentinel(isoStr) THEN Null
          ELSE IF isoStr \in premiumMarkets THEN Int2Num(3)
          ELSE IF isoStr \in goodMarkets THEN Int2Num(2)
          ELSE IF isoStr \in neutralMarkets THEN Int2Num(1)
          ELSE IF isoStr \in poorMarkets THEN Int2Num(0)
          ELSE Int2Num(1)

kwBilateral == <<"b","i","l","a","t","e","r","a","l">>
kwDeveloped == <<"d","e","v","e","l","o","p","e","d">>
kwProcess == <<"p","r","o","c","e","s","s">>
kwLessThan10 == <<"l","e","s","s"," ","t","h","a","n"," ","1","0">>
kwCompetitive == <<"c","o","m","p","e","t","i","t","i","v","e">>
kwMoreThan10 == <<"m","o","r","e"," ","t","h","a","n"," ","1","0">>

(* The keyword rules with the second read as (bilateral or process) and    *)
(* "less than 10".                                                         *)
transactabilityOrFirst(type) ==
  IF IsBlank(type) THEN Null
  ELSE IF ~IsString(type)
  THEN LET num == parseFloat(type)
       IN IF ~IsNaN(num)
          THEN MathMin(MathMax(MathRound(num), Int2Num(0)), Int2Num(3))
          ELSE Null
  ELSE LET typeStr == Trim(type.s)
           lowerType == ToLowerCase(typeStr)
       IN IF IsSentinel(typeStr) THEN Null
          ELSE IF Includes(lowerType, kwBilateral) /\ Includes(lowerType, kwDeveloped)
          THEN Int2Num(3)
          ELSE IF (Includes(lowerType, kwBilateral) \/ Includes(lowerType, kwProcess))
                  /\ Includes(lowerType, kwLessThan10)
          THEN Int2Num(2)
          ELSE IF Includes(lowerType, kwCompetitive) /\ Includes(lowerType, kwMoreThan10)
          THEN Int2Num(1)
          ELSE Int2Num(2)

transactability(type) ==
  IF IsBlank(type) THEN Null
  ELSE IF ~IsString(type)
  THEN LET num == parseFloat(type)
       IN IF ~IsNaN(num)
          THEN MathMin(MathMax(MathRound(num), Int2Num(0)), Int2Num(3))
          ELSE Null
  ELSE LET typeStr == Trim(type.s)
           lowerType == ToLowerCase(typeStr)
       IN IF IsSentinel(typeStr) THEN Null
          ELSE IF Includes(lowerType, kwBilateral) /\ Includes(lowerType, kwDeveloped)
          THEN Int2Num(3)
          ELSE IF Includes(lowerType, kwBilateral)
                  \/ (Includes(lowerType, kwProcess) /\ Includes(lowerType, kwLessThan10))
          THEN Int2Num(2)
          ELSE IF Includes(lowerType, kwCompetitive) /\ Includes(lowerType, kwMoreThan10)
          THEN Int2Num(1)
          ELSE Int2Num(2)

kwReadilyApparent == <<"r","e","a","d","i","l","y"," ","a","p","p","a","r","e","n","t">>
kwNoIdentifiable == <<"n","o"," ","i","d","e","n","t","i","f","i","a","b","l","e">>

thermalOptimization(value) ==
  IF Truthy(value) /\ IsString(value)
     /\ Includes(ToLowerCase(value.s), kwReadilyApparent)
  THEN Int2Num(2)
  ELSE IF Truthy(value) /\ IsString(value)
          /\ Includes(ToLowerCase(value.s), kwNoIdentifiable)
  THEN Int2Num(1)
  ELSE IF value = Int2Num(0) THEN Int2Num(0)
  ELSE IF IsBlank(value) THEN Int2Num(0)
  ELSE IF IsSentinel(Trim(StringOf(value))) THEN Int2Num(0)
  ELSE LET parsed == parseInt(value)
       IN IF ~IsNaN(parsed) /\ parsed.n >= 0 /\ parsed.n <= 2 * Unit
          THEN parsed
          ELSE Int2Num(0)

(* environmental and redevMarket: the same body, twice in the source. *)
integerRating(value) ==
  IF IsBlank(value) THEN Null
  ELSE IF value = Int2Num(0) THEN Int2Num(0)
  ELSE IF IsSentinel(Trim(StringOf(value))) THEN Null
  ELSE LET score == parseInt(value)
       IN IF IsNaN(score) THEN Null
          ELSE MathMin(MathMax(score, Int2Num(0)), Int2Num(3))

environmental(value) == integerRating(value)
redevMarket(value) == integerRating(value)

(* The thresholds compared with > in the place of >=. *)
continuousRatingStrict(value) ==
  IF IsBlank(value) THEN Null
  ELSE IF value = Int2Num(0) THEN Int2Num(0)
  ELSE IF IsSentinel(Trim(StringOf(value))) THEN Null
  ELSE LET score == parseFloat(value)
       IN IF IsNaN(score) THEN Null
          ELSE IF 10 * score.n > 25 * Unit THEN Int2Num(3)
          ELSE IF 10 * score.n > 15 * Unit THEN Int2Num(2)
          ELSE IF 10 * score.n > 5 * Unit THEN Int2Num(1)
          ELSE Int2Num(0)

(* Missing tested by truthiness, without the test for an explicit 0. *)
continuousRatingFalsy(value) ==
  IF ~Truthy(value) THEN Null
  ELSE IF IsSentinel(Trim(StringOf(value))) THEN Null
  ELSE LET score == parseFloat(value)
       IN IF IsNaN(score) THEN Null
          ELSE IF 10 * score.n >= 25 * Unit THEN Int2Num(3)
          ELSE IF 10 * score.n >= 15 * Unit THEN Int2Num(2)
          ELSE IF 10 * score.n >= 5 * Unit THEN Int2Num(1)
          ELSE Int2Num(0)

(* infra and ix: the same body, twice in the source. *)
continuousRating(value) ==
  IF IsBlank(value) THEN Null
  ELSE IF value = Int2Num(0) THEN Int2Num(0)
  ELSE IF IsSentinel(Trim(StringOf(value))) THEN Null
  ELSE LET score == parseFloat(value)
       IN IF IsNaN(score) THEN Null
          ELSE IF 10 * score.n >= 25 * Unit THEN Int2Num(3)
          ELSE IF 10 * score.n >= 15 * Unit THEN Int2Num(2)
          ELSE IF 10 * score.n >= 5 * Unit THEN Int2Num(1)
          ELSE Int2Num(0)

infra(value) == continuousRating(value)
ix(value) == continuousRating(value)

MappingNames == {"cod", "capacityFactor", "market", "transactability",
                 "thermalOptimization", "environmental", "redevMarket", "infra", "ix"}

(* SCORE_MAPPINGS[name](value) *)
SCORE_MAPPINGS(name, value) ==
  CASE name = "cod" -> cod(value)
    [] name = "capacityFactor" -> capacityFactor(value)
    [] name = "market" -> market(value)
    [] name = "transactability" -> transactability(value)
    [] name = "thermalOptimization" -> thermalOptimization(value)
    [] name = "environmental" -> environmental(value)
    [] name = "redevMarket" -> redevMarket(value)
    [] name = "infra" -> infra(value)
    [] OTHER -> ix(value)

(* ---------------------------------------------------------------------- *)
(* Canonical score calculations (scoreCalculations.js)                    *)
(* ---------------------------------------------------------------------- *)

(* data[key]: undefined when the object has no such property. *)
Get(data, key) == IF key \in DOMAIN data THEN data[key] ELSE Undefined

(* getScore with a truthiness test, which takes 0 for absent. *)
RECURSIVE getScoreFalsy(_, _)
getScoreFalsy(sources, defaultVal) ==
  IF sources = <<>> THEN defaultVal
  ELSE IF Truthy(Head(sources)) /\ ~IsNaN(parseFloat(Head(sources)))
       THEN parseFloat(Head(sources))
       ELSE getScoreFalsy(Tail(sources), defaultVal)

(* calculateThermalScore's getScore(...sources, defaultVal) *)
RECURSIVE getScore(_, _)
getScore(sources, defaultVal) ==
  IF sources = <<>> THEN defaultVal
  ELSE LET src == Head(sources)
           num == parseFloat(src)
       IN IF ~IsBlank(src) /\ ~IsNaN(num) THEN num
          ELSE getScore(Tail(sources), defaultVal)

(* The weighted sum with thermal optimization taken as given, not floored. *)
calculateThermalScoreNoFloor(data) ==
  Plus(Plus(Plus(Plus(
    Times(getScore(<<Get(data, "plant_cod"), Get(data, "Plant  COD"),
                     Get(data, "Plant COD")>>, Int2Num(0)), 20),
    Times(getScore(<<Get(data, "markets"), Get(data, "Markets")>>, Int2Num(0)), 30)),
    Times(getScore(<<Get(data, "transactability_scores"),
                     Get(data, "Transactability Scores")>>, Int2Num(0)), 30)),
    Times(getScore(<<Get(data, "thermal_optimization"),
                     Get(data, "Thermal Optimization")>>, Int2Num(1)), 5)),
    Times(getScore(<<Get(data, "environmental_score"), Get(data, "Envionmental Score"),
                     Get(data, "Environmental Score")>>, Int2Num(2)), 15))

calculateThermalScore(data) ==
  LET codV == getScore(<<Get(data, "plant_cod"), Get(data, "Plant  COD"),
                         Get(data, "Plant COD")>>, Int2Num(0))
      markets == getScore(<<Get(data, "markets"), Get(data, "Markets")>>, Int2Num(0))
      transact == getScore(<<Get(data, "transactability_scores"),
                             Get(data, "Transactability Scores")>>, Int2Num(0))
      thermalOptRaw == getScore(<<Get(data, "thermal_optimization"),
                                  Get(data, "Thermal Optimization")>>, Int2Num(1))
      thermalOpt == MathMax(Int2Num(1),
                            IF IsNaN(thermalOptRaw) THEN Int2Num(1) ELSE thermalOptRaw)
      environmentalV == getScore(<<Get(data, "environmental_score"),
                                   Get(data, "Envionmental Score"),
                                   Get(data, "Environmental Score")>>, Int2Num(2))
      score == Plus(Plus(Plus(Plus(Times(codV, 20), Times(markets, 30)),
                              Times(transact, 30)), Times(thermalOpt, 5)),
                    Times(environmentalV, 15))
  IN IF IsNaN(score) THEN Int2Num(0) ELSE score

(* getScore reading the canonical key only. *)
getScore2PrimaryOnly(primary, secondary, defaultVal) ==
  IF ~IsBlank(primary) /\ ~IsNaN(parseFloat(primary)) THEN parseFloat(primary)
  ELSE defaultVal

(* calculateRedevelopmentScore's getScore(primary, secondary, defaultVal) *)
getScore2(primary, secondary, defaultVal) ==
  IF ~IsBlank(primary) /\ ~IsNaN(parseFloat(primary)) THEN parseFloat(primary)
  ELSE IF ~IsBlank(secondary) /\ ~IsNaN(parseFloat(secondary)) THEN parseFloat(secondary)
  ELSE defaultVal

kwRepower == <<"r","e","p","o","w","e","r">>

(* The multiplier compared without trimming or lowercasing. *)
repowerMultiplierExact(data) ==
  IF StringOf(Or(Or(Get(data, "co_locate_repower"), Get(data, "Co-Locate/Repower")),
                 Str(<<>>))) = <<"R","e","p","o","w","e","r">>
  THEN 75 ELSE 100

(* The multiplier, in hundredths. *)
repowerMultiplier(data) ==
  LET coLocate == Trim(ToLowerCase(StringOf(
                    Or(Or(Get(data, "co_locate_repower"), Get(data, "Co-Locate/Repower")),
                       Str(<<>>)))))
  IN IF coLocate = kwRepower THEN 75 ELSE 100

(* The weighted sum times the multiplier, without the zero guard. *)
calculateRedevelopmentScoreNoGuard(data) ==
  Times(Plus(Plus(Times(getScore2(Get(data, "market_score"), Get(data, "Market Score"),
                                  Int2Num(2)), 40),
                  Times(getScore2(Get(data, "infra"), Get(data, "Infra"), Int2Num(2)), 30)),
             Times(getScore2(Get(data, "ix"), Get(data, "IX"), Int2Num(2)), 30)),
        repowerMultiplier(data))

calculateRedevelopmentScore(data) ==
  LET marketV == getScore2(Get(data, "market_score"), Get(data, "Market Score"), Int2Num(2))
      infraV == getScore2(Get(data, "infra"), Get(data, "Infra"), Int2Num(2))
      ixV == getScore2(Get(data, "ix"), Get(data, "IX"), Int2Num(2))
      multiplier == repowerMultiplier(data)
      score == Times(Plus(Plus(Times(marketV, 40), Times(infraV, 30)), Times(ixV, 30)),
                     multiplier)
  IN IF marketV = Int2Num(0) \/ infraV = Int2Num(0) \/ ixV = Int2Num(0) THEN Int2Num(0)
     ELSE IF IsNaN(score) THEN Int2Num(0) ELSE score

calculateOverallScore(thermal, redev) ==
  LET thermalVal == Or(parseFloat(thermal), Int2Num(0))
      redevVal == Or(parseFloat(redev), Int2Num(0))
  IN Plus(thermalVal, redevVal)

(* q / p with exactly d fraction digits. *)
FixedDigits(neg, q, p, d) ==
  (IF neg THEN <<"-">> ELSE <<>>) \o NatDigits(q \div p) \o <<".">>
    \o PadLeft(NatDigits(q % p), d)

(* Number.prototype.toFixed(d), d = 1 or 2: rounded to d fraction digits. *)
ToFixedP(v, d, p) ==
  IF IsNaN(v) THEN <<"N","a","N">>
  ELSE FixedDigits(v.n < 0, (2 * Abs(v.n) * p + Unit) \div (2 * Unit), p, d)

ToFixed(v, d) == ToFixedP(v, d, IF d = 1 THEN 10 ELSE 100)

(* v >= k / 10 as JavaScript compares: null counts as 0, NaN compares false. *)
AtLeastTenths(v, k) ==
  CASE v.t = "number" -> 10 * v.n >= k * Unit
    [] v.t = "null" -> 0 >= k
    [] OTHER -> FALSE

(* The rating ladder of calculateAllScores and generateExpertAnalysis. *)
ratingOf(overall) ==
  IF AtLeastTenths(overall, 45) THEN "Strong"
  ELSE IF AtLeastTenths(overall, 30) THEN "Moderate"
  ELSE "Weak"

calculateAllScores(data) ==
  LET thermal == calculateThermalScore(data)
      redev == calculateRedevelopmentScore(data)
      overall == calculateOverallScore(thermal, redev)
  IN [thermal_score |-> ParseFloatStr(ToFixed(thermal, 2)),
      redevelopment_score |-> ParseFloatStr(ToFixed(redev, 2)),
      overall_score |-> ParseFloatStr(ToFixed(overall, 2)),
      overall_rating |-> ratingOf(overall)]

(* generateExpertAnalysis from `const overallScore` on: the display strings *)
(* and the rating, given the scores object.                                *)
expertAnalysisOf(scores) ==
  LET overallScore == IF scores.overall_score # Null
                      THEN ToFixed(scores.overall_score, 1) ELSE <<"0",".","0">>
      thermalScore == IF scores.thermal_score # Null
                      THEN ToFixed(scores.thermal_score, 1) ELSE <<"0",".","0">>
      redevelopmentScore == IF scores.redevelopment_score # Null
                            THEN ToFixed(scores.redevelopment_score, 1) ELSE <<"0",".","0">>
      overallNumeric == ParseFloatStr(overallScore)
  IN [overallScore |-> overallScore,
      thermalScore |-> thermalScore,
      redevelopmentScore |-> redevelopmentScore,
      overallRating |-> ratingOf(overallNumeric)]

generateExpertAnalysis(projectData) == expertAnalysisOf(calculateAllScores(projectData))

(* The scores object of the N/A-propagating calculations the frontend      *)
(* documents: a score is null when one of its required inputs is missing.  *)
ThermalKeys == {"plant_cod", "markets", "transactability_scores",
                "thermal_optimization", "environmental_score"}
RedevKeys == {"market_score", "infra", "ix"}

naScores(data) ==
  LET scores == calculateAllScores(data)
      thermalNA == \E k \in ThermalKeys : IsBlank(Get(data, k))
      redevNA == \E k \in RedevKeys : IsBlank(Get(data, k))
  IN [thermal_score |-> IF thermalNA THEN Null ELSE scores.thermal_score,
      redevelopment_score |-> IF redevNA THEN Null ELSE scores.redevelopment_score,
      overall_score |-> IF thermalNA \/ redevNA THEN Null ELSE scores.overall_score,
      overall_rating |-> scores.overall_rating]

(* ---------------------------------------------------------------------- *)
(* Inputs                                                                 *)
(* ---------------------------------------------------------------------- *)
(* The largest component score drawn as an input. *)
MaxScore == 3

MissingValues == {Undefined, Null, Str(<<>>)}
ComponentValues == MissingValues \cup {Int2Num(i) : i \in 0..MaxScore}

SentinelStrings ==
  {Str(<<>>), Str(<<" ", " ">>), Str(HashNA), Str(PlainNA), Str(HashValue),
   Str(<<" ">> \o HashNA \o <<" ">>), Str(<<" ">> \o PlainNA),
   Str(HashValue \o <<" ", " ">>)}

(* Inputs every normalizer but thermalOptimization documents as missing. *)
MissingRaw == {Undefined, Null} \cup SentinelStrings

NumericRaw ==
  {Int2Num(i) : i \in -1..(MaxScore + 1)}
    \cup {Num((i * Unit) \div 2) : i \in 0..(2 * MaxScore)}
    \cup {Num((4 * Unit) \div 10), Num((5 * Unit) \div 100), Num((25 * Unit) \div 100)}
    \cup {Int2Num(1999), Int2Num(2000), Int2Num(2005), Int2Num(2006)}
    \cup {Num((i * Unit) \div 2 - 1) : i \in {1, 3, 5}}

TextRaw ==
  {Str(<<"0">>), Str(<<"1">>), Str(<<"3">>), Str(<<"2", ".", "5">>), Str(<<" ", "2">>),
   Str(<<"1", "9", "9", "9">>), Str(<<"2", "0", "0", "5">>),
   Str(<<"P", "J", "M">>), Str(<<"E", "R", "C", "O", "T">>), Str(<<"a", "b", "c">>)}

(* Transactability descriptions, by the rule that applies to them. *)
TextBilateralDeveloped ==
  {Str(<<"B","i","l","a","t","e","r","a","l",","," ","d","e","v","e","l","o","p","e","d"," ","m","a","r","k","e","t">>),
   Str(<<" ","D","E","V","E","L","O","P","E","D"," ","b","i","l","a","t","e","r","a","l"," ","c","o","m","p","e","t","i","t","i","v","e"," ","m","o","r","e"," ","t","h","a","n"," ","1","0">>)}
TextBilateral ==
  {Str(<<"b","i","l","a","t","e","r","a","l">>),
   Str(<<"B","i","l","a","t","e","r","a","l"," ","c","o","m","p","e","t","i","t","i","v","e"," ","m","o","r","e"," ","t","h","a","n"," ","1","0">>),
   Str(<<"B","i","l","a","t","e","r","a","l"," ","p","r","o","c","e","s","s">>)}
TextProcessLessThan10 ==
  {Str(<<"P","r","o","c","e","s","s"," ","l","e","s","s"," ","t","h","a","n"," ","1","0">>),
   Str(<<"c","o","m","p","e","t","i","t","i","v","e"," ","m","o","r","e"," ","t","h","a","n"," ","1","0"," ","p","r","o","c","e","s","s",","," ","l","e","s","s"," ","t","h","a","n"," ","1","0"," ","b","i","d","d","e","r","s">>)}
TextCompetitiveMoreThan10 ==
  {Str(<<"C","o","m","p","e","t","i","t","i","v","e"," ","m","o","r","e"," ","t","h","a","n"," ","1","0">>),
   Str(<<"p","r","o","c","e","s","s"," ","c","o","m","p","e","t","i","t","i","v","e"," ","M","o","r","e"," ","T","h","a","n"," ","1","0">>),
   Str(<<"d","e","v","e","l","o","p","e","d"," ","c","o","m","p","e","t","i","t","i","v","e"," ","m","o","r","e"," ","t","h","a","n"," ","1","0"," ">>)}
TextOther ==
  {Str(<<"p","r","o","c","e","s","s">>), Str(<<"c","o","m","p","e","t","i","t","i","v","e">>),
   Str(<<"d","e","v","e","l","o","p","e","d"," ","l","e","s","s"," ","t","h","a","n"," ","1","0">>),
   Str(<<"m","o","r","e"," ","t","h","a","n"," ","1","0">>)}

TransactabilityTexts ==
  TextBilateralDeveloped \cup TextBilateral \cup TextProcessLessThan10
    \cup TextCompetitiveMoreThan10 \cup TextOther

(* Years as strings, at the bounds of the buckets. *)
TextYears ==
  {Str(<<"2", "0", "0", "0">>), Str(<<"2", "0", "0", "6">>),
   Str(<<" ", "2", "0", "0", "5", " ">>)}

(* Thermal optimization descriptions. *)
TextReadilyApparent ==
  {Str(<<"R","e","a","d","i","l","y"," ","a","p","p","a","r","e","n","t"," ","v","a","l","u","e">>),
   Str(<<" ","n","o"," ","i","d","e","n","t","i","f","i","a","b","l","e"," ","v","a","l","u","e",";"," ","R","E","A","D","I","L","Y"," ","A","P","P","A","R","E","N","T">>)}
TextNoIdentifiable ==
  {Str(<<"N","o"," ","i","d","e","n","t","i","f","i","a","b","l","e"," ","v","a","l","u","e">>)}

RawValues ==
  MissingRaw \cup NumericRaw \cup TextRaw \cup TransactabilityTexts
    \cup TextReadilyApparent \cup TextNoIdentifiable \cup TextYears \cup {NaN}

FlagRepower == {Str(<<"R","e","p","o","w","e","r">>), Str(kwRepower),
                Str(<<" ","R","E","P","O","W","E","R"," ">>)}
FlagOther == {Undefined, Null, Str(<<>>), Str(<<"C","o","-","L","o","c","a","t","e">>),
              Str(<<"r","e","p","o","w","e","r","e","d">>)}
CoLocateFlags == FlagRepower \cup FlagOther

PresentValues == {Int2Num(i) : i \in 0..MaxScore}
EdgeValues == MissingValues \cup {Int2Num(0), Int2Num(MaxScore)}

(* Every all-present assignment, and every mix of missing and edge values. *)
ThermalData == [ThermalKeys -> PresentValues] \cup [ThermalKeys -> EdgeValues]

WithFlag(d, f) ==
  [k \in RedevKeys \cup {"co_locate_repower"} |->
     IF k = "co_locate_repower" THEN f ELSE d[k]]

RedevData ==
  {WithFlag(d, f) : d \in [RedevKeys -> PresentValues], f \in CoLocateFlags}
    \cup {WithFlag(d, f) : d \in [RedevKeys -> EdgeValues],
                           f \in {Undefined, Str(kwRepower)}}

(* The display label a component also goes by. *)
LabelOf(k) ==
  CASE k = "plant_cod" -> "Plant COD"
    [] k = "markets" -> "Markets"
    [] k = "transactability_scores" -> "Transactability Scores"
    [] k = "thermal_optimization" -> "Thermal Optimization"
    [] k = "environmental_score" -> "Environmental Score"
    [] k = "market_score" -> "Market Score"
    [] k = "infra" -> "Infra"
    [] k = "ix" -> "IX"
    [] OTHER -> "Co-Locate/Repower"

(* An object with the values of d under the display labels and canonical   *)
(* under the canonical keys.                                               *)
Labelled(keys, d, canonical) ==
  [k \in keys \cup {LabelOf(j) : j \in keys} |->
     IF k \in keys THEN canonical[k] ELSE d[CHOOSE j \in keys : LabelOf(j) = k]]

LabelValues == {Int2Num(0), Int2Num(1), Int2Num(MaxScore)}

(* Values under the display labels only, and values under both key forms. *)
LabelledThermalData ==
  {Labelled(ThermalKeys, d, [k \in ThermalKeys |-> m]) :
     d \in [ThermalKeys -> LabelValues], m \in MissingValues}
    \cup {Labelled(ThermalKeys, [k \in ThermalKeys |-> v], d) :
            d \in [ThermalKeys -> {Int2Num(0), Int2Num(MaxScore)}],
            v \in {Int2Num(1), Str(<<"2">>)}}

LabelledRedevData ==
  {Labelled(RedevKeys \cup {"co_locate_repower"}, WithFlag(d, f),
            [k \in RedevKeys \cup {"co_locate_repower"} |-> m]) :
     d \in [RedevKeys -> LabelValues],
     f \in {Undefined, Str(<<"R","e","p","o","w","e","r">>),
            Str(<<"C","o","-","L","o","c","a","t","e">>)},
     m \in MissingValues}
    \cup {Labelled(RedevKeys \cup {"co_locate_repower"},
                   WithFlag([k \in RedevKeys |-> v], g), WithFlag(d, f)) :
            d \in [RedevKeys -> {Int2Num(0), Int2Num(MaxScore)}],
            v \in {Int2Num(1), Str(<<"2">>)},
            f \in {Str(kwRepower), Str(<<"C","o","-","L","o","c","a","t","e">>)},
            g \in {Str(kwRepower), Str(<<"C","o","-","L","o","c","a","t","e">>)}}

(* Composite scores handed to calculateOverallScore: null or a number. *)
ScoreValues == {Null} \cup {Num((i * Unit) \div 4) : i \in 0..(4 * MaxScore)}

(* Whole projects: one value for the thermal components, edge values for   *)
(* the redevelopment ones.                                                 *)
ProjectData ==
  {[k \in ThermalKeys \cup RedevKeys \cup {"co_locate_repower"} |->
      IF k \in ThermalKeys THEN t
      ELSE IF k = "co_locate_repower" THEN f ELSE d[k]] :
     t \in ComponentValues,
     d \in [RedevKeys -> {Undefined, Int2Num(0), Int2Num(MaxScore)}],
     f \in {Undefined, Str(kwRepower)}}

(* Projects with non-integer components: the thermal components all 3 or   *)
(* all 1.5 (thermal score 3 or 1.5), the redevelopment score 1.496         *)
(* (market 1.49, infra 1.5, ix 1.5) or 1.5 (all three 1.5).                *)
RoundingProjects ==
  {[k \in ThermalKeys \cup RedevKeys \cup {"co_locate_repower"} |->
      IF k \in ThermalKeys THEN t
      ELSE IF k = "co_locate_repower" THEN Undefined
      ELSE IF k = "market_score" THEN m
      ELSE Num((3 * Unit) \div 2)] :
     t \in {Int2Num(3), Num((3 * Unit) \div 2)},
     m \in {Num((149 * Unit) \div 100), Num((3 * Unit) \div 2)}}

(* ---------------------------------------------------------------------- *)
(* Expert analysis storage: current values in the projects table, one     *)
(* history row per save (backend/models/expertAnalysis.js)                *)
(* ---------------------------------------------------------------------- *)
Projects == {"p1", "p2"}
Clients == {"c1", "c2"}

(* The most rows written to the projects table in one behaviour. *)
MaxSaves == 2

(* The columns of a project the expert does not edit. *)
projectComponents(p) ==
  IF p = "p1"
  THEN [plant_cod |-> Int2Num(2), markets |-> Int2Num(3),
        transactability_scores |-> Int2Num(1),
        co_locate_repower |-> Str(<<"R","e","p","o","w","e","r">>)]
  ELSE [plant_cod |-> Int2Num(3), markets |-> Int2Num(1),
        transactability_scores |-> Int2Num(2), co_locate_repower |-> Null]

(* The component values a save request carries, with the overall score the *)
(* caller computed on its side (null when it sends none).                  *)
SaveInputs ==
  {[thermal_optimization |-> Str(kwReadilyApparent), environmental_score |-> Int2Num(1),
    market_score |-> Int2Num(3), infra |-> Num((25 * Unit) \div 10), ix |-> Int2Num(2),
    overall_score |-> Int2Num(0)],
   [thermal_optimization |-> Str(kwReadilyApparent), environmental_score |-> Int2Num(1),
    market_score |-> Int2Num(3), infra |-> Num((25 * Unit) \div 10), ix |-> Int2Num(2),
    overall_score |-> Int2Num(6)],
   [thermal_optimization |-> Int2Num(1), environmental_score |-> Undefined,
    market_score |-> Str(<<"2">>), infra |-> Int2Num(0), ix |-> Str(PlainNA),
    overall_score |-> Null]}

(* The scores recalculated from the project's own columns and the          *)
(* re-normalized component scores.                                         *)
recalculated(components, thermalOptimizationScore, environmentalScoreValue, marketScoreValue, calculatedInfraScore, interconnectionScore) ==
  LET recalculatedThermal ==
        calculateThermalScore(
          [plant_cod |-> components.plant_cod,
           markets |-> components.markets,
           transactability_scores |-> components.transactability_scores,
           thermal_optimization |-> thermalOptimizationScore,
           environmental_score |-> environmentalScoreValue])
      recalculatedRedev ==
        calculateRedevelopmentScore(
          [market_score |-> marketScoreValue,
           infra |-> parseFloat(calculatedInfraScore),
           ix |-> interconnectionScore,
           co_locate_repower |-> components.co_locate_repower])
  IN [thermal |-> recalculatedThermal,
      redev |-> recalculatedRedev,
      overall |-> calculateOverallScore(recalculatedThermal, recalculatedRedev)]

(* The scores of project p recalculated for the components of a request. *)
scoresOf(p, input) ==
  recalculated(projectComponents(p),
               thermalOptimization(input.thermal_optimization),
               environmental(input.environmental_score),
               redevMarket(input.market_score),
               infra(input.infra),
               ix(input.ix))

(* The columns of the projects row a save writes. *)
writtenRow(input, scores, editor, now) ==
  [thermal_optimization |-> thermalOptimization(input.thermal_optimization),
   environmental_score |-> environmental(input.environmental_score),
   market_score |-> redevMarket(input.market_score),
   infra |-> infra(input.infra),
   ix |-> ix(input.ix),
   thermal_score_calc |-> scores.thermal,
   redev_score_calc |-> scores.redev,
   overall_score_calc |-> scores.overall,
   edited_by |-> editor,
   edited_at |-> now]

(* A row that keeps the overall score of the request when it carries one. *)
scoreRecordTrusting(p, input, editor, now) ==
  writtenRow(input,
             [scoresOf(p, input) EXCEPT
                !.overall = IF input.overall_score = Null THEN @ ELSE input.overall_score],
             editor, now)

(* The row a save writes: the re-normalized components, the recalculated   *)
(* scores, the editor and the time of the write.                           *)
scoreRecord(p, input, editor, now) == writtenRow(input, scoresOf(p, input), editor, now)

(* A project no expert has saved yet. *)
Unedited ==
  [thermal_optimization |-> Null, environmental_score |-> Null, market_score |-> Null,
   infra |-> Null, ix |-> Null, thermal_score_calc |-> Null, redev_score_calc |-> Null,
   overall_score_calc |-> Null, edited_by |-> "nobody", edited_at |-> 0]

(* The history row of a save: the values written and the change summary. *)
historyEntry(record, summary) == [snapshot |-> record, changes_summary |-> summary]

(* COALESCE(a, b) of the query *)
COALESCE(a, b) == IF a # Null THEN a ELSE b

(* getExpertAnalysis: the row of the project as the query selects it. *)
getExpertAnalysis(row) ==
  [thermal_optimization |-> row.thermal_optimization,
   environmental_score |-> row.environmental_score,
   market_score |-> row.market_score,
   infra |-> row.infra,
   ix |-> row.ix,
   thermal_score_calc |-> COALESCE(row.thermal_score_calc, Int2Num(0)),
   redev_score_calc |-> COALESCE(row.redev_score_calc, Int2Num(0)),
   overall_score_calc |-> COALESCE(row.overall_score_calc, Int2Num(0)),
   edited_by |-> row.edited_by,
   edited_at |-> row.edited_at]

(* The rows the projects table can hold: never edited, or written by a save. *)
StoredRows ==
  {Unedited} \cup {scoreRecord(p, input, "c1", 1) : p \in Projects, input \in SaveInputs}

(* The rows of edited projects, each with its project: what a save of the  *)
(* stored values unchanged is given.                                       *)
EditedRows ==
  {[project |-> p, row |-> scoreRecord(p, input, "c1", 1)] :
     p \in Projects, input \in SaveInputs}

IdleTx == [pc |-> "idle", project |-> "none", input |-> Undefined, rec |-> Unedited,
           undo |-> Unedited, outcome |-> "none", failedAt |-> "none"]

(* ---------------------------------------------------------------------- *)
(* State: one call of one scoring function (fn, arg, ret, done), and the  *)
(* tables with the saves in progress (projects, history, tx, clock).      *)
(* ---------------------------------------------------------------------- *)
(* The most entries a project may have (POI voltage entries). *)
MaxEntries == 5

(* The most replacements one client asks for in one behaviour. *)
MaxReplaces == 2

(* The entry lists a client sends: none, some, the most allowed, one more.  *)
(* An entry is named by its POI voltage.                                   *)
EntryLists ==
  {<<>>, <<69, 115>>, <<138, 161>>, [i \in 1..MaxEntries |-> 100 + i],
   [i \in 1..(MaxEntries + 1) |-> 200 + i]}

IdleRepl == [pc |-> "idle", project |-> "none", transmissionData |-> <<>>, left |-> <<>>,
             undo |-> {}, outcome |-> "none", count |-> 0]

VARIABLES fn, arg, ret, done, projects, history, tx, clock, transmission, repl

callVars == <<fn, arg, ret, done>>
storeVars == <<projects, history, tx, clock>>
childVars == <<transmission, repl>>
vars == <<fn, arg, ret, done, projects, history, tx, clock, transmission, repl>>

StoreInit ==
  /\ projects = [p \in Projects |-> Unedited]
  /\ history = [p \in Projects |-> <<>>]
  /\ tx = [c \in Clients |-> IdleTx]
  /\ clock = 0
  /\ transmission = [p \in Projects |-> {}]
  /\ repl = [c \in Clients |-> IdleRepl]

Init ==
  /\ ret = Undefined
  /\ done = FALSE
  /\ \/ fn \in MappingNames /\ arg \in RawValues
     \/ fn = "calculateThermalScore" /\ arg \in ThermalData \cup LabelledThermalData
     \/ fn = "calculateRedevelopmentScore" /\ arg \in RedevData \cup LabelledRedevData
     \/ fn = "calculateOverallScore" /\ arg \in ScoreValues \X ScoreValues
     \/ fn = "calculateAllScores" /\ arg \in ProjectData \cup RoundingProjects
     \/ fn = "generateExpertAnalysis" /\ arg \in ProjectData
     \/ fn = "getExpertAnalysis" /\ arg \in StoredRows
     \/ fn = "saveExpertAnalysis" /\ arg \in EditedRows
  /\ StoreInit

Return(value) ==
  /\ ret' = value
  /\ done' = TRUE
  /\ UNCHANGED <<fn, arg>>
  /\ UNCHANGED storeVars
  /\ UNCHANGED childVars

ApplyMapping ==
  /\ ~done /\ fn \in MappingNames
  /\ Return(SCORE_MAPPINGS(fn, arg))

CalcThermal ==
  /\ ~done /\ fn = "calculateThermalScore"
  /\ Return(calculateThermalScore(arg))

CalcRedevelopment ==
  /\ ~done /\ fn = "calculateRedevelopmentScore"
  /\ Return(calculateRedevelopmentScore(arg))

CalcOverall ==
  /\ ~done /\ fn = "calculateOverallScore"
  /\ Return(calculateOverallScore(arg[1], arg[2]))

CalcAll ==
  /\ ~done /\ fn = "calculateAllScores"
  /\ Return(calculateAllScores(arg))

(* generateExpertAnalysis(projectData): the scores come from the canonical *)
(* calculateAllScores, in either of its two copies.                        *)
ExpertAnalysis ==
  /\ ~done /\ fn = "generateExpertAnalysis"
  /\ \E scores \in {calculateAllScores(arg), naScores(arg)} :
       Return([scores |-> scores, analysis |-> expertAnalysisOf(scores)])

GetExpertAnalysis ==
  /\ ~done /\ fn = "getExpertAnalysis"
  /\ Return(getExpertAnalysis(arg))

(* saveExpertAnalysis with the stored components of the project as the    *)
(* request: the row the save writes.                                       *)
SaveStoredValues ==
  /\ ~done /\ fn = "saveExpertAnalysis"
  /\ Return(scoreRecord(arg.project, arg.row, "c2", 2))

Next ==
  \/ ApplyMapping
  \/ CalcThermal
  \/ CalcRedevelopment
  \/ CalcOverall
  \/ CalcAll
  \/ ExpertAnalysis
  \/ GetExpertAnalysis
  \/ SaveStoredValues

Spec == Init /\ [][Next]_vars

(* ---------------------------------------------------------------------- *)
(* saveOverride: one transaction per save                                 *)
(* ---------------------------------------------------------------------- *)
(* The project's row is locked from the write to the end of the transaction. *)
Holds(c, p) == tx[c].pc \in {"written", "appended"} /\ tx[c].project = p
(* No row lock: a write never waits for the transaction of another save. *)
LockedNever(p) == FALSE

Locked(p) == \E c \in Clients : Holds(c, p)

(* A save request arrives: the transaction begins. *)
SaveBegin(c, p, input) ==
  /\ tx[c].pc = "idle"
  /\ clock < MaxSaves
  /\ tx' = [tx EXCEPT ![c] = [IdleTx EXCEPT !.pc = "begun", !.project = p,
                                             !.input = input]]
  /\ UNCHANGED <<projects, history, clock>>
  /\ UNCHANGED callVars
  /\ UNCHANGED childVars

(* UPDATE projects: the current record is overwritten, under the row lock. *)
SaveWriteCurrent(c) ==
  /\ tx[c].pc = "begun"
  /\ ~Locked(tx[c].project)
  /\ clock < MaxSaves
  /\ LET p == tx[c].project
         rec == scoreRecord(p, tx[c].input, c, clock + 1)
     IN /\ projects' = [projects EXCEPT ![p] = rec]
        /\ tx' = [tx EXCEPT ![c].pc = "written", ![c].rec = rec,
                             ![c].undo = projects[p]]
  /\ clock' = clock + 1
  /\ UNCHANGED history
  /\ UNCHANGED callVars
  /\ UNCHANGED childVars

(* INSERT INTO expert_analysis_history *)
SaveAppendHistory(c) ==
  /\ tx[c].pc = "written"
  /\ history' = [history EXCEPT ![tx[c].project] =
                    Append(@, historyEntry(tx[c].rec, "edited"))]
  /\ tx' = [tx EXCEPT ![c].pc = "appended"]
  /\ UNCHANGED <<projects, clock>>
  /\ UNCHANGED callVars
  /\ UNCHANGED childVars

(* COMMIT: both writes stay, the lock is released. *)
SaveCommit(c) ==
  /\ tx[c].pc = "appended"
  /\ tx' = [tx EXCEPT ![c].pc = "idle", ![c].outcome = "saved"]
  /\ UNCHANGED <<projects, history, clock>>
  /\ UNCHANGED callVars
  /\ UNCHANGED childVars

(* A rollback that takes back the history row and leaves the current record. *)
rolledBackProjectsKept(c) == projects

(* ROLLBACK: the tables as they were before the transaction's writes. *)
rolledBackProjects(c) ==
  IF tx[c].pc \in {"written", "appended"}
  THEN [projects EXCEPT ![tx[c].project] = tx[c].undo]
  ELSE projects

(* A rollback that leaves the history row of the failed save in place. *)
rolledBackHistoryKept(c) == history

rolledBackHistory(c) ==
  IF tx[c].pc = "appended"
  THEN [history EXCEPT ![tx[c].project] = SubSeq(@, 1, Len(@) - 1)]
  ELSE history

(* The storage fails at any point of the transaction: it is rolled back    *)
(* and the save reports the error.                                         *)
StorageFailure(c) ==
  /\ tx[c].pc \in {"begun", "written", "appended"}
  /\ projects' = rolledBackProjects(c)
  /\ history' = rolledBackHistory(c)
  /\ tx' = [tx EXCEPT ![c].pc = "idle", ![c].outcome = "error",
                       ![c].failedAt = tx[c].pc]
  /\ UNCHANGED clock
  /\ UNCHANGED callVars
  /\ UNCHANGED childVars

InitStore ==
  /\ fn = "none" /\ arg = Undefined /\ ret = Undefined /\ done = TRUE
  /\ StoreInit

NextStore ==
  \/ \E c \in Clients, p \in Projects, input \in SaveInputs : SaveBegin(c, p, input)
  \/ \E c \in Clients : SaveWriteCurrent(c)
  \/ \E c \in Clients : SaveAppendHistory(c)
  \/ \E c \in Clients : SaveCommit(c)
  \/ \E c \in Clients : StorageFailure(c)

SpecStore == InitStore /\ [][NextStore]_vars

(* ---------------------------------------------------------------------- *)
(* saveTransmissionInterconnection(projectId, transmissionData): the      *)
(* entries of a project are replaced, delete then insert                  *)
(* ---------------------------------------------------------------------- *)
(* The rows of p are held from the delete to the end of the transaction. *)
Replacing(c, p) == repl[c].pc = "deleted" /\ repl[c].project = p

Entries(transmissionData) == {transmissionData[i] : i \in DOMAIN transmissionData}

(* The request arrives. *)
ReplaceBegin(c, p, transmissionData) ==
  /\ repl[c].pc = "idle"
  /\ repl[c].count < MaxReplaces
  /\ repl' = [repl EXCEPT ![c] = [IdleRepl EXCEPT !.pc = "begun", !.project = p,
                                                    !.transmissionData = transmissionData,
                                                    !.count = repl[c].count + 1]]
  /\ UNCHANGED transmission
  /\ UNCHANGED <<callVars, storeVars>>

(* The table after a request is refused, had the delete run before the     *)
(* entries were counted.                                                   *)
refusedTransmissionDeleted(c) == [transmission EXCEPT ![repl[c].project] = {}]

(* The table after a request is refused: nothing was deleted. *)
refusedTransmission(c) == transmission

(* if (transmissionData.length > 5) throw new Error('Maximum of 5 ...') *)
ReplaceRefuse(c) ==
  /\ repl[c].pc = "begun"
  /\ Len(repl[c].transmissionData) > MaxEntries
  /\ transmission' = refusedTransmission(c)
  /\ repl' = [repl EXCEPT ![c] = [IdleRepl EXCEPT !.project = repl[c].project,
                                                    !.outcome = "refused",
                                                    !.count = repl[c].count]]
  /\ UNCHANGED <<callVars, storeVars>>

(* DELETE FROM transmission_interconnection WHERE project_id = $1 *)
ReplaceDelete(c) ==
  /\ repl[c].pc = "begun"
  /\ Len(repl[c].transmissionData) <= MaxEntries
  /\ \A d \in Clients : ~Replacing(d, repl[c].project)
  /\ transmission' = [transmission EXCEPT ![repl[c].project] = {}]
  /\ repl' = [repl EXCEPT ![c].pc = "deleted",
                           ![c].left = repl[c].transmissionData,
                           ![c].undo = transmission[repl[c].project]]
  /\ UNCHANGED <<callVars, storeVars>>

(* INSERT INTO transmission_interconnection, one entry at a time *)
ReplaceInsert(c) ==
  /\ repl[c].pc = "deleted"
  /\ repl[c].left # <<>>
  /\ transmission' = [transmission EXCEPT ![repl[c].project] = @ \cup {Head(repl[c].left)}]
  /\ repl' = [repl EXCEPT ![c].left = Tail(repl[c].left)]
  /\ UNCHANGED <<callVars, storeVars>>

(* COMMIT, every entry inserted *)
ReplaceCommit(c) ==
  /\ repl[c].pc = "deleted"
  /\ repl[c].left = <<>>
  /\ repl' = [repl EXCEPT ![c] = [IdleRepl EXCEPT !.project = repl[c].project,
                                                    !.outcome = "saved",
                                                    !.count = repl[c].count]]
  /\ UNCHANGED transmission
  /\ UNCHANGED <<callVars, storeVars>>

(* The storage fails after the delete: ROLLBACK. *)
ReplaceFailure(c) ==
  /\ repl[c].pc = "deleted"
  /\ transmission' = [transmission EXCEPT ![repl[c].project] = repl[c].undo]
  /\ repl' = [repl EXCEPT ![c] = [IdleRepl EXCEPT !.project = repl[c].project,
                                                    !.outcome = "error",
                                                    !.count = repl[c].count]]
  /\ UNCHANGED <<callVars, storeVars>>

NextChild ==
  \/ \E c \in Clients, p \in Projects, transmissionData \in EntryLists :
       ReplaceBegin(c, p, transmissionData)
  \/ \E c \in Clients : ReplaceRefuse(c)
  \/ \E c \in Clients : ReplaceDelete(c)
  \/ \E c \in Clients : ReplaceInsert(c)
  \/ \E c \in Clients : ReplaceCommit(c)
  \/ \E c \in Clients : ReplaceFailure(c)

SpecChild == InitStore /\ [][NextChild]_vars

(* ---------------------------------------------------------------------- *)
(* Claims                                                                 *)
(* ---------------------------------------------------------------------- *)
Called(name) == done /\ fn = name

AnyMissing(data, keys) == \E k \in keys : data[k] \in MissingValues
AllPresent(data, keys) == \A k \in keys : IsNumber(data[k])

(* C1: calculateThermalScore returns null if and only if at least one of   *)
(* its five inputs is missing (undefined, null or the empty string); it    *)
(* never puts a numeric default in the place of a missing input.           *)
C1_ThermalMissingIff ==
  Called("calculateThermalScore") =>
    ((ret = Null) <=> AnyMissing(arg, ThermalKeys))

(* C2: calculateRedevelopmentScore returns null whenever market, infra or  *)
(* ix is missing, for any co-locate flag, also when another of the three   *)
(* is a present 0.                                                         *)
C2_RedevMissingPropagates ==
  (Called("calculateRedevelopmentScore") /\ AnyMissing(arg, RedevKeys)) => ret = Null

(* C3: calculateOverallScore returns null if and only if thermal or redev  *)
(* is null, and thermal + redev otherwise; null is never summed as 0.      *)
C3_OverallMissingIff ==
  Called("calculateOverallScore") =>
    IF arg[1] = Null \/ arg[2] = Null
    THEN ret = Null
    ELSE ret = Num(arg[1].n + arg[2].n)

(* C4: with market, infra and ix all present and at least one of them 0,   *)
(* calculateRedevelopmentScore returns the number 0, whatever the other    *)
(* values and the co-locate flag.                                          *)
C4_ZeroGuard ==
  (Called("calculateRedevelopmentScore") /\ AllPresent(arg, RedevKeys)
     /\ \E k \in RedevKeys : arg[k].n = 0)
    => ret = Int2Num(0)

C4_Witness ==
  /\ Called("calculateRedevelopmentScore")
  /\ arg["market_score"] = Int2Num(2) /\ arg["infra"] = Int2Num(0)
  /\ arg["ix"] = Int2Num(3) /\ arg["co_locate_repower"] \in FlagRepower
  /\ ret = Int2Num(0)

(* The larger of two integers. *)
Larger(a, b) == IF a >= b THEN a ELSE b

(* C5: with all five inputs present, calculateThermalScore returns         *)
(* 0.20 cod + 0.30 markets + 0.30 transactability + 0.05 max(1, thermalOpt)*)
(* + 0.15 environmental (compared in hundredths of the grid unit), so      *)
(* thermalOpt 0 and 1 score alike.                                         *)
C5_ThermalWeightedSum ==
  (Called("calculateThermalScore") /\ AllPresent(arg, ThermalKeys)) =>
    /\ IsNumber(ret)
    /\ 100 * ret.n = 20 * arg["plant_cod"].n + 30 * arg["markets"].n
                     + 30 * arg["transactability_scores"].n
                     + 5 * Larger(Unit, arg["thermal_optimization"].n)
                     + 15 * arg["environmental_score"].n

(* cod=2, markets=3, transactability=1, thermalOpt=0, environmental=2: 1.95 *)
C5_Witness ==
  /\ Called("calculateThermalScore")
  /\ arg["plant_cod"] = Int2Num(2) /\ arg["markets"] = Int2Num(3)
  /\ arg["transactability_scores"] = Int2Num(1)
  /\ arg["thermal_optimization"] = Int2Num(0)
  /\ arg["environmental_score"] = Int2Num(2)
  /\ 100 * ret.n = 195 * Unit

(* C6: with market, infra and ix present and non-zero,                     *)
(* calculateRedevelopmentScore returns (0.40 market + 0.30 infra + 0.30 ix)*)
(* times 0.75 when the flag is "repower" up to case and surrounding white  *)
(* space, and times 1 for every other flag, absent and empty included.     *)
C6_RedevWeightedSum ==
  (Called("calculateRedevelopmentScore") /\ AllPresent(arg, RedevKeys)
     /\ \A k \in RedevKeys : arg[k].n # 0) =>
    /\ IsNumber(ret)
    /\ 10000 * ret.n =
         (40 * arg["market_score"].n + 30 * arg["infra"].n + 30 * arg["ix"].n)
           * (IF arg["co_locate_repower"] \in FlagRepower THEN 75 ELSE 100)

(* market=3, infra=2, ix=3, " REPOWER ": 2.025 *)
C6_Witness ==
  /\ Called("calculateRedevelopmentScore")
  /\ arg["market_score"] = Int2Num(3) /\ arg["infra"] = Int2Num(2)
  /\ arg["ix"] = Int2Num(3)
  /\ arg["co_locate_repower"] = Str(<<" ","R","E","P","O","W","E","R"," ">>)
  /\ 1000 * ret.n = 2025 * Unit

(* The rating the specification gives an overall score. *)
RatingOfOverall(overall) ==
  IF overall = Null THEN "Unrated"
  ELSE IF 10 * overall.n >= 45 * Unit THEN "Strong"
  ELSE IF 10 * overall.n >= 30 * Unit THEN "Moderate"
  ELSE "Weak"

(* C7: the rating is Strong for overall >= 4.5, Moderate for 3.0 <= overall*)
(* < 4.5, Weak for a present overall < 3.0 and Unrated for a missing       *)
(* overall, in calculateAllScores (whose overall is missing when a         *)
(* required input is) and in generateExpertAnalysis (given the scores).    *)
C7_RatingOfOverall ==
  /\ Called("generateExpertAnalysis") =>
       ret.analysis.overallRating = RatingOfOverall(ret.scores.overall_score)
  /\ (Called("calculateAllScores") /\ AnyMissing(arg, ThermalKeys \cup RedevKeys)) =>
       ret.overall_rating = "Unrated"

(* C8: undefined, null, the empty string, white space and the sentinels    *)
(* "#N/A", "N/A", "#VALUE!" (bare or with white space around) normalize to *)
(* null in every normalizer but thermalOptimization, and to 0 there.       *)
C8_MissingRaw ==
  (done /\ fn \in MappingNames /\ arg \in MissingRaw) =>
    ret = IF fn = "thermalOptimization" THEN Int2Num(0) ELSE Null

C8_Witness ==
  /\ Called("market")
  /\ arg = Str(HashValue \o <<" ", " ">>)
  /\ ret = Null

(* What a component contributes: its number, or the default if missing. *)
Used(v, default) == IF IsNumber(v) THEN v.n ELSE default * Unit

(* C9: the number 0 is never taken for missing: every normalizer gives a   *)
(* number for 0, calculateThermalScore weighs a 0 component as 0 (not as   *)
(* its default) and calculateRedevelopmentScore takes a 0 component for    *)
(* the zero of its zero guard.                                             *)
C9_ZeroIsPresent ==
  /\ (done /\ fn \in MappingNames /\ arg = Int2Num(0)) => IsNumber(ret)
  /\ (Called("calculateThermalScore") /\ \E k \in ThermalKeys : arg[k] = Int2Num(0)) =>
       100 * ret.n = 20 * Used(arg["plant_cod"], 0) + 30 * Used(arg["markets"], 0)
                      + 30 * Used(arg["transactability_scores"], 0)
                      + 5 * Larger(Unit, Used(arg["thermal_optimization"], 1))
                      + 15 * Used(arg["environmental_score"], 2)
  /\ (Called("calculateRedevelopmentScore") /\ \E k \in RedevKeys : arg[k] = Int2Num(0)) =>
       ret = Int2Num(0)

(* environmental 0 beside three 3s: 0.6 + 0.9 + 0.9 + 0.15 + 0 = 2.55 *)
C9_Witness ==
  /\ Called("calculateThermalScore")
  /\ arg["environmental_score"] = Int2Num(0)
  /\ \A k \in ThermalKeys \ {"environmental_score"} : arg[k] = Int2Num(MaxScore)
  /\ 100 * ret.n = (20 + 30 + 30 + 5) * MaxScore * Unit

(* The current record of p is the snapshot of its newest history row, or   *)
(* p has neither.                                                          *)
CurrentMatchesHistory(p) ==
  IF history[p] = <<>>
  THEN projects[p] = Unedited
  ELSE projects[p] = history[p][Len(history[p])].snapshot

(* C10: saveOverride is all or nothing: outside a transaction in progress  *)
(* on the project, also after a storage failure between the overwrite of   *)
(* the current record and the history insert, the current record and the   *)
(* newest history row are of the same save, or the project has neither.    *)
C10_SaveAllOrNothing ==
  \A p \in Projects : ~Locked(p) => CurrentMatchesHistory(p)

(* A save failed between the two writes, after an earlier save of the same *)
(* project was committed: the earlier save is still the current record.    *)
C10_Witness ==
  \E c \in Clients :
    /\ tx[c].pc = "idle" /\ tx[c].outcome = "error" /\ tx[c].failedAt = "written"
    /\ ~Locked(tx[c].project)
    /\ history[tx[c].project] # <<>>
    /\ projects[tx[c].project] # tx[c].rec
    /\ projects[tx[c].project] = tx[c].undo
(* The component values a normalizer can leave in a stored row. *)
NormalizedScores == {Null} \cup {Int2Num(i) : i \in 0..3}

StoredComponents ==
  [thermal_optimization : {Int2Num(i) : i \in 0..2},
   environmental_score : NormalizedScores, market_score : NormalizedScores,
   infra : NormalizedScores, ix : NormalizedScores]

componentsOf(row) ==
  [thermal_optimization |-> row.thermal_optimization,
   environmental_score |-> row.environmental_score,
   market_score |-> row.market_score, infra |-> row.infra, ix |-> row.ix]

(* Every stored component row of every project with the scores              *)
(* re-normalized and recomputed from it.                                   *)
Recomputed ==
  {[project |-> p, components |-> row, scores |-> scoresOf(p, row)] :
     p \in Projects, row \in StoredComponents}

(* C11: after any sequence of saves, the thermal, redevelopment and        *)
(* overall scores stored for an edited project are the ones recomputed     *)
(* from its stored components, re-normalized; the overall score a caller   *)
(* sends with the request is never what is stored.                         *)
C11_StoredScoresRecomputed ==
  \A p \in Projects :
    projects[p] # Unedited =>
      [project |-> p,
       components |-> componentsOf(projects[p]),
       scores |-> [thermal |-> projects[p].thermal_score_calc,
                   redev |-> projects[p].redev_score_calc,
                   overall |-> projects[p].overall_score_calc]] \in Recomputed

(* A committed save whose request carried another overall score than the   *)
(* one stored.                                                             *)
C11_Witness ==
  \E c \in Clients :
    /\ tx[c].pc = "idle" /\ tx[c].outcome = "saved"
    /\ tx[c].input.overall_score = Int2Num(6)
    /\ projects[tx[c].project] = tx[c].rec
    /\ projects[tx[c].project].overall_score_calc # Int2Num(6)

(* The history rows of p that are committed: all but the row of a          *)
(* transaction still in progress.                                          *)
committedHistory(p) ==
  IF \E c \in Clients : tx[c].pc = "appended" /\ tx[c].project = p
  THEN SubSeq(history[p], 1, Len(history[p]) - 1)
  ELSE history[p]

(* This step is the commit of a save of p: the save succeeds. *)
Committing(p) ==
  \E c \in Clients :
    /\ tx[c].pc = "appended" /\ tx[c].project = p
    /\ tx'[c].pc = "idle" /\ tx'[c].outcome = "saved"

InCreationOrder(h) ==
  \A i, j \in 1..Len(h) : i < j => h[i].snapshot.edited_at < h[j].snapshot.edited_at

(* C12: the history of a project is append-only: a step that makes a save  *)
(* succeed appends exactly one entry, the entry of that save, every other  *)
(* step (a failed save included) leaves the committed entries as they are, *)
(* and the entries are in creation order.                                  *)
C12_HistoryAppendOnly ==
  /\ [](\A p \in Projects : InCreationOrder(history[p]))
  /\ [][\A p \in Projects :
          IF Committing(p)
          THEN committedHistory(p)' = Append(committedHistory(p), history[p][Len(history[p])])
          ELSE committedHistory(p)' = committedHistory(p)]_vars

(* A save failed after its history insert and the entry of the earlier     *)
(* save is the only one.                                                   *)
C12_Witness ==
  \E c \in Clients :
    /\ tx[c].pc = "idle" /\ tx[c].outcome = "error" /\ tx[c].failedAt = "appended"
    /\ Len(history[tx[c].project]) = 1
    /\ history[tx[c].project][1].snapshot # tx[c].rec

(* C15: concurrent saves of one project take effect one after the other:   *)
(* a step that changes the record or the history of p is a step of the one *)
(* save that holds p, no other save holding it; when a save commits, the   *)
(* current record is the one it wrote, the newest history entry is its     *)
(* snapshot and the history is one entry longer; and a step of a save of   *)
(* one project changes nothing of another project.                         *)
C15_SavesSerialized ==
  [][\A p \in Projects :
       /\ Committing(p) =>
             \E c \in Clients :
               /\ tx[c].pc = "appended" /\ tx[c].project = p /\ tx'[c].pc = "idle"
               /\ projects'[p] = tx[c].rec
               /\ history'[p][Len(history'[p])].snapshot = tx[c].rec
               /\ Len(committedHistory(p)') = Len(committedHistory(p)) + 1
       /\ (projects'[p] # projects[p] \/ history'[p] # history[p]) =>
             \E c \in Clients :
               /\ tx[c].project = p /\ tx[c].pc # "idle" /\ tx'[c] # tx[c]
               /\ \A d \in Clients \ {c} : ~Holds(d, p)]_vars

(* A save of p waits while the save of another client holds p, after an    *)
(* earlier save of the waiting client was committed.                       *)
C15_Witness ==
  \E p \in Projects, c, d \in Clients :
    /\ c # d
    /\ tx[c].pc = "begun" /\ tx[c].project = p
    /\ tx[d].pc = "appended" /\ tx[d].project = p
    /\ Len(history[p]) = 2
    /\ history[p][1].snapshot.edited_by = c
    /\ history[p][2].snapshot = projects[p]

ScoreColumns == {"thermal_score_calc", "redev_score_calc", "overall_score_calc"}

(* C14: reading the current record gives a missing (null) thermal,         *)
(* redevelopment or overall score back as missing, never as the number 0.  *)
C14_ReadKeepsMissing ==
  Called("getExpertAnalysis") =>
    \A k \in ScoreColumns : arg[k] = Null => ret[k] = Null

(* A value getScore takes: present and a number. *)
Usable(v) == ~IsBlank(v) /\ ~IsNaN(parseFloat(v))

(* The same values under the canonical keys only: the canonical key's      *)
(* value where it is usable (for the flag: not empty), the value under the *)
(* display label where it is not.                                          *)
CanonicalOnly(data, keys) ==
  [k \in keys |->
     IF (k = "co_locate_repower" /\ Truthy(data[k])) \/ (k # "co_locate_repower" /\ Usable(data[k]))
     THEN data[k]
     ELSE Get(data, LabelOf(k))]

(* C16: a component given under its display label only counts as the same  *)
(* value given under its canonical key only, in calculateThermalScore and  *)
(* in calculateRedevelopmentScore (the co-locate flag included); given     *)
(* under both, the canonical key's value is the one used.                  *)
C16_LabelsAsCanonicalKeys ==
  /\ Called("calculateThermalScore") =>
       ret = calculateThermalScore(CanonicalOnly(arg, ThermalKeys))
  /\ Called("calculateRedevelopmentScore") =>
       ret = calculateRedevelopmentScore(
               CanonicalOnly(arg, RedevKeys \cup {"co_locate_repower"}))

(* market 3, infra 1, ix 3 and "Repower", all under the display labels:    *)
(* (1.2 + 0.3 + 0.9) * 0.75 = 1.8                                          *)
C16_Witness ==
  /\ Called("calculateRedevelopmentScore")
  /\ \A k \in RedevKeys \cup {"co_locate_repower"} : arg[k] = Undefined
  /\ Get(arg, "Market Score") = Int2Num(3) /\ Get(arg, "Infra") = Int2Num(1)
  /\ Get(arg, "IX") = Int2Num(3)
  /\ Get(arg, "Co-Locate/Repower") = Str(<<"R","e","p","o","w","e","r">>)
  /\ 10 * ret.n = 18 * Unit

(* C17: for free text, transactability gives 3 when the lowercased text    *)
(* contains "bilateral" and "developed"; else 2 when it contains           *)
(* "bilateral", or "process" and "less than 10"; else 1 when it contains   *)
(* "competitive" and "more than 10"; else 2. "bilateral" alone is enough   *)
(* for the second rule and "process" alone is not.                         *)
C17_TransactabilityKeywords ==
  Called("transactability") =>
    /\ arg \in TextBilateralDeveloped => ret = Int2Num(3)
    /\ arg \in TextBilateral \cup TextProcessLessThan10 => ret = Int2Num(2)
    /\ arg \in TextCompetitiveMoreThan10 => ret = Int2Num(1)
    /\ arg \in TextOther \cup {Str(<<"a", "b", "c">>)} => ret = Int2Num(2)

(* "bilateral" with the third rule's keywords and no "less than 10": 2. *)
C17_Witness ==
  /\ Called("transactability")
  /\ arg = Str(<<"B","i","l","a","t","e","r","a","l"," ","c","o","m","p","e","t","i","t","i","v","e"," ","m","o","r","e"," ","t","h","a","n"," ","1","0">>)
  /\ ret = Int2Num(2)

(* A number, or a string that is no sentinel and parses to a number. *)
NumericInput(v) ==
  \/ IsNumber(v)
  \/ IsString(v) /\ ~IsSentinel(Trim(v.s)) /\ IsNumber(parseFloat(v))

(* i clamped to lo..hi *)
Clamp(i, lo, hi) == IF i < lo THEN lo ELSE IF i > hi THEN hi ELSE i

(* The nearest integer of k grid units, halves up. *)
Nearest(k) == (2 * k + Unit) \div (2 * Unit)

(* C18: for a number, and for a string that parses to a number ("0", "1",  *)
(* "3"), transactability gives that number rounded to the nearest integer  *)
(* and clamped to 0..3.                                                    *)
C18_TransactabilityNumeric ==
  (Called("transactability") /\ NumericInput(arg)) =>
    ret = Int2Num(Clamp(Nearest(parseFloat(arg).n), 0, 3))

(* C19: thermalOptimization gives 2 for text containing "readily apparent" *)
(* in any letter case, else 1 for text containing "no identifiable", else  *)
(* the input itself when it is the integer 0, 1 or 2 (as a number or as a  *)
(* numeric string), else 0: always 0, 1 or 2, never null.                  *)
C19_ThermalOptimization ==
  Called("thermalOptimization") =>
    ret = IF arg \in TextReadilyApparent THEN Int2Num(2)
          ELSE IF arg \in TextNoIdentifiable THEN Int2Num(1)
          ELSE IF NumericInput(arg) /\ parseFloat(arg) \in {Int2Num(i) : i \in 0..2}
               THEN parseFloat(arg)
          ELSE Int2Num(0)

committedEntries(p) ==
  IF \E c \in Clients : Replacing(c, p)
  THEN repl[CHOOSE c \in Clients : Replacing(c, p)].undo
  ELSE transmission[p]

(* C13: a replacement with more than 5 entries is refused and leaves the   *)
(* stored entries of every project as they were; a replacement with 0 to 5 *)
(* entries that succeeds leaves exactly the given entries stored for the   *)
(* project (none for the empty list); and no project has more than 5       *)
(* stored entries in any state.                                            *)
C13_ReplaceChildEntries ==
  /\ [](\A p \in Projects : Cardinality(transmission[p]) <= MaxEntries)
  /\ [][\A c \in Clients :
          /\ (Len(repl[c].transmissionData) > MaxEntries /\ repl'[c] # repl[c]) =>
                /\ repl'[c].outcome = "refused"
                /\ transmission' = transmission
          /\ (repl[c].pc # "idle" /\ repl'[c].outcome = "saved") =>
                /\ Len(repl[c].transmissionData) <= MaxEntries
                /\ transmission'[repl[c].project] = Entries(repl[c].transmissionData)
                /\ committedEntries(repl[c].project)' = Entries(repl[c].transmissionData)]_vars

(* A list of six entries was refused and the two entries stored before are *)
(* still the project's entries.                                            *)
C13_Witness ==
  \E c \in Clients :
    /\ repl[c].pc = "idle" /\ repl[c].outcome = "refused"
    /\ transmission[repl[c].project] = {69, 115}

(* An integer, as a number or as a string of digits (white space around    *)
(* allowed).                                                               *)
IntegerInput(v) == NumericInput(v) /\ parseFloat(v).n % Unit = 0

(* C21: for a year given as an integer or as an integer string, cod gives  *)
(* 3 before 2000, 2 from 2000 to 2005 (both included) and 1 after 2005.    *)
C21_CodBuckets ==
  (Called("cod") /\ IntegerInput(arg)) =>
    ret = Int2Num(IF parseFloat(arg).n \div Unit < 2000 THEN 3
                  ELSE IF parseFloat(arg).n \div Unit <= 2005 THEN 2
                  ELSE 1)

(* The year 2005 as a string: still the middle bucket. *)
C21_Witness ==
  /\ Called("cod")
  /\ arg = Str(<<"2", "0", "0", "5">>)
  /\ ret = Int2Num(2)

(* C22: in the object calculateAllScores returns, the rating agrees with   *)
(* the returned overall_score (rounded to two decimals): Strong exactly    *)
(* when it is at least 4.5, Moderate exactly when it is at least 3.0 and   *)
(* below 4.5, also for non-integer components (an overall of 4.496 or      *)
(* 2.996 before rounding).                                                 *)
C22_RatingAgreesWithReturned ==
  Called("calculateAllScores") =>
    /\ ret.overall_rating = "Strong" <=> 10 * ret.overall_score.n >= 45 * Unit
    /\ ret.overall_rating = "Moderate" <=>
         (10 * ret.overall_score.n >= 30 * Unit /\ 10 * ret.overall_score.n < 45 * Unit)

(* The normalizers a save applies to the components an expert edits. *)
EditedMappings == {"thermalOptimization", "environmental", "redevMarket", "infra", "ix"}

(* C23: thermalOptimization, environmental, redevMarket, infra and ix, and *)
(* transactability on numbers, give their own result back when applied to  *)
(* it, for every input; and a save of an edited project with its stored    *)
(* components unchanged writes the same components and the same thermal,   *)
(* redevelopment and overall scores.                                       *)
C23_NormalizersIdempotent ==
  /\ (done /\ fn \in EditedMappings) => SCORE_MAPPINGS(fn, ret) = ret
  /\ (Called("transactability") /\ (IsNumber(arg) \/ IsNaN(arg))) =>
       SCORE_MAPPINGS(fn, ret) = ret
  /\ Called("saveExpertAnalysis") =>
       /\ componentsOf(ret) = componentsOf(arg.row)
       /\ ret.thermal_score_calc = arg.row.thermal_score_calc
       /\ ret.redev_score_calc = arg.row.redev_score_calc
       /\ ret.overall_score_calc = arg.row.overall_score_calc

(* A project stored with infra 0 and ix missing is saved again unchanged:  *)
(* infra is still 0, ix still missing and the redevelopment score still 0. *)
C23_Witness ==
  /\ Called("saveExpertAnalysis")
  /\ arg.row.infra = Int2Num(0) /\ arg.row.ix = Null
  /\ ret.infra = Int2Num(0) /\ ret.ix = Null
  /\ ret.redev_score_calc = Int2Num(0)
  /\ ret.edited_at # arg.row.edited_at
====
